---- MODULE Spec2Model ----
(***************************************************************************)
(* Model of collectors/monitoring_collector.go (stackdriver_exporter):     *)
(* MonitoringCollector.Collect, reportMonitoringMetrics with its nested    *)
(* fan-out (prefix goroutines, descriptor-page callback, descriptor        *)
(* goroutines, completion watchers, the two buffered error channels), and  *)
(* reportTimeSeriesMetrics, the reduction of a time-series page.           *)
(*                                                                         *)
(* Conventions.  A Go pointer or optional value is a sequence of length    *)
(* 0 (nil) or 1.  A float64 is the integer number of thousandths it        *)
(* stands for.  A buffered channel of capacity 1 is a sequence of length   *)
(* at most 1; a closed signalling channel is a boolean.                    *)
(***************************************************************************)
EXTENDS Integers, Sequences, FiniteSets, TLC

\* ---------------------------------------------------------------- bounds
MaxPrefixes == 2
MaxDescPages == 3
MaxDescriptors == 3
MaxTSPages == 2
MaxCalls == 4
MaxClock == 1
MaxPrior == 1
MaxSeries == 2
MaxPoints == 3

\* c.metricsInterval, in clock ticks
MetricsInterval == 1

Prefixes == 1..MaxPrefixes
Descs == 1..MaxDescriptors

\* ------------------------------------------------------------ data model
\* Point.Interval.EndTime is a string; this is what the remote may send.
EndTimeStrings ==
    {"1970-01-01T00:00:00Z", "2017-01-01T00:00:01Z", "2017-01-01T00:00:02Z", "not-a-time"}

\* time.Parse(time.RFC3339Nano, s): <<seconds since the epoch>> or <<>> on error
ParseTime(s) ==
    CASE s = "1970-01-01T00:00:00Z" -> <<0>>
      [] s = "2017-01-01T00:00:01Z" -> <<1483228801>>
      [] s = "2017-01-01T00:00:02Z" -> <<1483228802>>
      [] OTHER -> <<>>

\* time.Unix(0, 0)
UnixEpoch == 0

\* monitoring.TypedValue: one pointer field per value type
BoolV(b) == [boolValue |-> <<b>>, int64Value |-> <<>>, doubleValue |-> <<>>]
Int64V(n) == [boolValue |-> <<>>, int64Value |-> <<n>>, doubleValue |-> <<>>]
DoubleV(x) == [boolValue |-> <<>>, int64Value |-> <<>>, doubleValue |-> <<x>>]
NoV == [boolValue |-> <<>>, int64Value |-> <<>>, doubleValue |-> <<>>]

\* monitoring.Point
Pt(e, v) == [endTime |-> e, value |-> v]

\* float64(n) for an int64 n (exact for the magnitudes used here)
Float64OfInt64(n) == 1000 * n

MetricKinds == {"GAUGE", "DELTA", "CUMULATIVE", "METRIC_KIND_UNSPECIFIED"}
ValueTypes == {"BOOL", "INT64", "DOUBLE", "DISTRIBUTION"}

\* the values a point of a series of value type vt may carry
ValuesOf(vt) ==
    CASE vt = "BOOL" -> {BoolV(TRUE), BoolV(FALSE)}
      [] vt = "INT64" -> {Int64V(7), Int64V(42)}
      [] vt = "DOUBLE" -> {DoubleV(3140), DoubleV(2500)}
      [] OTHER -> {NoV}

PointsOf(vt) == {Pt(e, v) : e \in EndTimeStrings, v \in ValuesOf(vt)}

\* utils.NormalizeMetricName
NormalizeMetricName(t) ==
    CASE t = "compute.googleapis.com/instance/cpu/usage_time" ->
             "compute_googleapis_com_instance_cpu_usage_time"
      [] OTHER -> t

\* prometheus.BuildFQName("stackdriver", "monitoring", name)
BuildFQName(name) == <<"stackdriver", "monitoring", name>>

\* -------------------------------------------- reportTimeSeriesMetrics
\* faulty variant: a point at the newest end time so far replaces the one held
ScanPointAtOrAfter(st, point) ==
    LET endTime == ParseTime(point.endTime) IN
    IF endTime = <<>>
    THEN [st EXCEPT !.err = TRUE]
    ELSE IF endTime[1] >= st.newestEndTime
         THEN [st EXCEPT !.newestEndTime = endTime[1], !.newestTSPoint = <<point>>]
         ELSE st

\* One iteration of the loop over timeSeries.Points (lines 245-254):
\* st = [err, newestEndTime, newestTSPoint]
ScanPoint(st, point) ==
    LET endTime == ParseTime(point.endTime) IN
    IF endTime = <<>>
    THEN [st EXCEPT !.err = TRUE]
    ELSE IF endTime[1] > st.newestEndTime
         THEN [st EXCEPT !.newestEndTime = endTime[1], !.newestTSPoint = <<point>>]
         ELSE st

RECURSIVE ScanFrom(_, _, _)
ScanFrom(points, i, st) ==
    IF i > Len(points) \/ st.err
    THEN st
    ELSE ScanFrom(points, i + 1, ScanPoint(st, points[i]))

\* The whole loop over the points of one series; newestTSPoint comes in
\* from the previous series (it is declared outside the series loop).
ScanPoints(points, newestTSPoint) ==
    ScanFrom(points, 1,
             [err |-> FALSE, newestEndTime |-> UnixEpoch, newestTSPoint |-> newestTSPoint])

\* switch timeSeries.MetricKind (lines 256-265): <<value type>> or <<>> (continue)
KindSwitch(metricKind) ==
    CASE metricKind = "GAUGE" -> <<"gauge">>
      [] metricKind = "DELTA" -> <<"counter">>
      [] metricKind = "CUMULATIVE" -> <<"counter">>
      [] OTHER -> <<>>

\* switch timeSeries.ValueType (lines 267-280) on newestTSPoint:
\* "value" with the float64, "skip" (continue), or "panic" (nil dereference)
ValueSwitch(valueType, newestTSPoint) ==
    CASE valueType = "BOOL" ->
             IF newestTSPoint = <<>> \/ newestTSPoint[1].value.boolValue = <<>>
             THEN [kind |-> "panic", v |-> 0]
             ELSE [kind |-> "value",
                   v |-> IF newestTSPoint[1].value.boolValue[1] THEN 1000 ELSE 0]
      [] valueType = "INT64" ->
             IF newestTSPoint = <<>> \/ newestTSPoint[1].value.int64Value = <<>>
             THEN [kind |-> "panic", v |-> 0]
             ELSE [kind |-> "value",
                   v |-> Float64OfInt64(newestTSPoint[1].value.int64Value[1])]
      [] valueType = "DOUBLE" ->
             IF newestTSPoint = <<>> \/ newestTSPoint[1].value.doubleValue = <<>>
             THEN [kind |-> "panic", v |-> 0]
             ELSE [kind |-> "value", v |-> newestTSPoint[1].value.doubleValue[1]]
      [] OTHER -> [kind |-> "skip", v |-> 0]

\* faulty variant: labelKeys starts empty
LabelKeysOfMapsOnly(timeSeries) ==
    [i \in 1..Len(timeSeries.metricLabels) |-> timeSeries.metricLabels[i][1]]
        \o [i \in 1..Len(timeSeries.resourceLabels) |-> timeSeries.resourceLabels[i][1]]

\* lines 282-291: the label keys and values of a sample
LabelKeys(timeSeries) ==
    <<"unit", "resource_type">>
        \o [i \in 1..Len(timeSeries.metricLabels) |-> timeSeries.metricLabels[i][1]]
        \o [i \in 1..Len(timeSeries.resourceLabels) |-> timeSeries.resourceLabels[i][1]]

LabelValues(timeSeries, metricDescriptor) ==
    <<metricDescriptor.unit, timeSeries.resourceType>>
        \o [i \in 1..Len(timeSeries.metricLabels) |-> timeSeries.metricLabels[i][2]]
        \o [i \in 1..Len(timeSeries.resourceLabels) |-> timeSeries.resourceLabels[i][2]]

\* lines 293-303: the metric sent on ch
NewConstMetric(timeSeries, metricDescriptor, valueKind, value) ==
    [fqName |-> BuildFQName(NormalizeMetricName(timeSeries.metricType)),
     help |-> metricDescriptor.description,
     labelKeys |-> LabelKeys(timeSeries),
     labelValues |-> LabelValues(timeSeries, metricDescriptor),
     valueKind |-> valueKind,
     value |-> value]

\* The part of the series loop body after the scan (lines 256-303):
\* out = "sample" (with the metric), "skip" (continue) or "panic"
EmitSeries(timeSeries, metricDescriptor, newestTSPoint) ==
    LET k == KindSwitch(timeSeries.metricKind)
        v == ValueSwitch(timeSeries.valueType, newestTSPoint)
    IN  IF k = <<>> THEN [out |-> "skip", sample |-> <<>>]
        ELSE IF v.kind = "skip" THEN [out |-> "skip", sample |-> <<>>]
        ELSE IF v.kind = "panic" THEN [out |-> "panic", sample |-> <<>>]
        ELSE [out |-> "sample",
              sample |-> <<NewConstMetric(timeSeries, metricDescriptor, k[1], v.v)>>]

\* faulty variant: a point that does not parse makes the loop skip the series
ReduceSeriesSkippingUnparsed(timeSeries, metricDescriptor, newestTSPoint) ==
    LET st == ScanPoints(timeSeries.points, newestTSPoint) IN
    IF st.err
    THEN [out |-> "skip", sample |-> <<>>, newestTSPoint |-> st.newestTSPoint]
    ELSE LET e == EmitSeries(timeSeries, metricDescriptor, st.newestTSPoint) IN
         [out |-> e.out, sample |-> e.sample, newestTSPoint |-> st.newestTSPoint]

\* One iteration of the loop over page.TimeSeries (lines 243-304):
\* out = "sample" | "skip" | "error" (return err) | "panic"
ReduceSeries(timeSeries, metricDescriptor, newestTSPoint) ==
    LET st == ScanPoints(timeSeries.points, newestTSPoint) IN
    IF st.err
    THEN [out |-> "error", sample |-> <<>>, newestTSPoint |-> st.newestTSPoint]
    ELSE LET e == EmitSeries(timeSeries, metricDescriptor, st.newestTSPoint) IN
         [out |-> e.out, sample |-> e.sample, newestTSPoint |-> st.newestTSPoint]

RECURSIVE ReportFrom(_, _, _, _, _)
ReportFrom(page, metricDescriptor, i, newestTSPoint, sent) ==
    IF i > Len(page)
    THEN [sent |-> sent, err |-> FALSE, panic |-> FALSE]
    ELSE LET r == ReduceSeries(page[i], metricDescriptor, newestTSPoint) IN
         CASE r.out = "error" -> [sent |-> sent, err |-> TRUE, panic |-> FALSE]
           [] r.out = "panic" -> [sent |-> sent, err |-> FALSE, panic |-> TRUE]
           [] OTHER -> ReportFrom(page, metricDescriptor, i + 1, r.newestTSPoint,
                                  sent \o r.sample)

\* reportTimeSeriesMetrics(page, metricDescriptor, ch): what it sends on ch,
\* in order, and how it ends
reportTimeSeriesMetrics(page, metricDescriptor) ==
    ReportFrom(page, metricDescriptor, 1, <<>>, <<>>)

\* ------------------------------------------------------ pipeline state
VARIABLES
    np,                \* len(c.metricsTypePrefixes)
    cpc,               \* where Collect is
    begun,             \* Collect's local: time.Now() at its start
    errorMetric,       \* Collect's local errorMetric (0 or 1)
    scrapeErr,         \* what reportMonitoringMetrics returned: <<>> is nil
    topErr,            \* reportMonitoringMetrics' errChannel (capacity 1)
    topDone,           \* reportMonitoringMetrics' doneChannel is closed
    ppc,               \* per prefix goroutine: where it is
    pageNo,            \* per prefix: descriptor pages handed to the callback
    hasNext,           \* per prefix: the current descriptor page has a NextPageToken
    perr,              \* per prefix: the error Pages returned
    errCh,             \* per prefix: the current callback's errChannel (capacity 1)
    done,              \* per prefix: the current callback's doneChannel is closed
    nd,                \* per prefix: len(page.MetricDescriptors) of the current page
    window,            \* per prefix: the current callback's <<startTime, endTime>>
    tpc,               \* per descriptor goroutine: where it is
    tgot,              \* per descriptor goroutine: the pages Do() returned, the
                       \* last one being its variable page
    terr,              \* per descriptor goroutine: the error it holds
    apiCalls,          \* c.apiCallsTotalMetric
    scrapesTotal,      \* c.scrapesTotalMetric
    scrapeErrorsTotal, \* c.scrapeErrorsTotalMetric
    lastScrapeError,   \* c.lastScrapeErrorMetric
    sink,              \* the metrics sent on ch by reportTimeSeriesMetrics
    emitted,           \* the bookkeeping metrics sent on ch by Collect
    now,               \* the wall clock
    horizon,           \* how far the wall clock gets during this scrape
    fetchCalls,        \* history: remote Do() calls issued in this scrape
    tsRequests,        \* history: the interval of every time-series request
    firstErr,          \* history: per prefix, first error written to errCh
    promised,          \* history: remote calls the responses so far lead to
    prior,             \* history: the counters when Collect was called
    answers,           \* history: what the remote answered to each request
    run,               \* 0: one scrape is followed; 1, 2: the first and the
                       \* second of two scrapes against the same remote
    sink1,             \* the metrics the first of the two scrapes sent on ch
    \* one call of reportTimeSeriesMetrics, followed series by series
    rDesc,             \* its argument metricDescriptor
    rLen,              \* len(page.TimeSeries)
    rIdx,              \* the series the loop is at (1-based; 0 before the loop)
    rSeries,           \* that series, with the points scanned so far
    rNewestEnd,        \* newestEndTime
    rNewest,           \* newestTSPoint
    rPc,               \* "next": top of the series loop; "scan": in the points loop
    rRet,              \* how the call ended: "nil", "err" or "panic"
    rSentFor,          \* the series (by index) a metric was sent on ch for
    rPick,             \* history: which point of the series newestTSPoint points
                       \* at (1-based; 0 when it points at none of them)
    rLast              \* history: the series last finished and what came of it

collectVars == <<np, cpc, begun, errorMetric, scrapeErr, topErr, topDone>>
prefixVars == <<ppc, pageNo, hasNext, perr, errCh, done, nd, window>>
taskVars == <<tpc, tgot, terr>>
metricVars == <<apiCalls, scrapesTotal, scrapeErrorsTotal, lastScrapeError, sink, emitted>>
histVars == <<fetchCalls, tsRequests, firstErr, promised, prior, horizon, answers>>
pipelineVars == <<collectVars, prefixVars, taskVars, metricVars, histVars, now>>
reduceVars == <<rDesc, rLen, rIdx, rSeries, rNewestEnd, rNewest, rPc, rRet, rSentFor, rPick, rLast>>
replayVars == <<run, sink1>>
vars == <<pipelineVars, reduceVars, replayVars>>

\* the six bookkeeping metrics of Collect, in the order it sends them
Bookkeeping ==
    <<"scrape_errors_total", "api_calls_total", "scrapes_total",
      "last_scrape_error", "last_scrape_timestamp", "last_scrape_duration_seconds">>

\* the metric descriptor a descriptor page lists at position d
DescriptorOf(d) ==
    [type |-> "compute.googleapis.com/instance/cpu/usage_time",
     unit |-> "s",
     description |-> "cpu usage"]

\* time series the remote may return to a descriptor goroutine
GoodSeries ==
    [metricType |-> "compute.googleapis.com/instance/cpu/usage_time",
     metricKind |-> "GAUGE", valueType |-> "INT64", resourceType |-> "gce_instance",
     metricLabels |-> <<>>, resourceLabels |-> <<>>,
     points |-> <<Pt("2017-01-01T00:00:01Z", Int64V(7))>>]

BadSeries == [GoodSeries EXCEPT !.points = <<Pt("not-a-time", Int64V(7))>>]

\* the time-series pages (page.TimeSeries) the remote may return
TSPageChoices == {<<GoodSeries>>, <<GoodSeries, BadSeries, GoodSeries>>}

\* a ListTimeSeriesResponse: its TimeSeries and whether it has a NextPageToken
TSPage(series, more) == [nil |-> FALSE, series |-> series, next |-> more]

\* Do() returning a nil page and a nil error
NilPage == [nil |-> TRUE, series |-> <<>>, next |-> FALSE]

\* the counters a collector can show before a scrape: after construction, or
\* after earlier scrapes that counted no API call
PriorStates ==
    {st \in [scrapes : 0..MaxPrior, errors : 0..MaxPrior, last : {0, 1}] :
        /\ st.errors <= st.scrapes
        /\ st.last = 1 => st.errors >= 1
        /\ st.last = 0 => (st.scrapes = 0 \/ st.errors < st.scrapes)}

PipelineInit ==
    /\ np \in 0..MaxPrefixes
    /\ cpc = "idle"
    /\ begun = 0
    /\ errorMetric = 0
    /\ scrapeErr = <<>>
    /\ topErr = <<>>
    /\ topDone = FALSE
    /\ ppc = [p \in Prefixes |-> "none"]
    /\ pageNo = [p \in Prefixes |-> 0]
    /\ hasNext = [p \in Prefixes |-> FALSE]
    /\ perr = [p \in Prefixes |-> <<>>]
    /\ errCh = [p \in Prefixes |-> <<>>]
    /\ done = [p \in Prefixes |-> FALSE]
    /\ nd = [p \in Prefixes |-> 0]
    /\ window = [p \in Prefixes |-> <<0, 0>>]
    /\ tpc = [p \in Prefixes |-> [d \in Descs |-> "none"]]
    /\ tgot = [p \in Prefixes |-> [d \in Descs |-> <<>>]]
    /\ terr = [p \in Prefixes |-> [d \in Descs |-> <<>>]]
    /\ apiCalls = 0
    /\ \E st \in PriorStates :
        /\ scrapesTotal = st.scrapes
        /\ scrapeErrorsTotal = st.errors
        /\ lastScrapeError = st.last
        /\ prior = st
    /\ sink = {}
    /\ emitted = <<>>
    /\ now = 0
    /\ horizon \in 0..MaxClock
    /\ fetchCalls = 0
    /\ tsRequests = {}
    /\ firstErr = [p \in Prefixes |-> <<>>]
    /\ promised = np
    /\ answers = <<>>
    /\ sink1 = {}

\* the metric descriptors a descriptor page may list
Descriptors ==
    {[type |-> "compute.googleapis.com/instance/cpu/usage_time",
      unit |-> u, description |-> "cpu usage"] : u \in {"s", "By"}}

\* no call of reportTimeSeriesMetrics is being followed
ReduceIdle ==
    /\ rDesc = DescriptorOf(1)
    /\ rLen = 0
    /\ rIdx = 0
    /\ rSeries = <<>>
    /\ rNewestEnd = UnixEpoch
    /\ rNewest = <<>>
    /\ rPc = "idle"
    /\ rRet = ""
    /\ rSentFor = <<>>
    /\ rPick = 0
    /\ rLast = <<>>

Init == PipelineInit /\ ReduceIdle /\ run = 0

\* The size of the remote catalogue is bounded: a response that lists n
\* descriptors, or carries a NextPageToken, leads to that many further calls.
Offered(n, more) == n + (IF more THEN 1 ELSE 0)

\* time.Now(): a reading t of the wall clock, no earlier than the last reading
TimeNow(last, t) == t \in last..horizon

\* ------------------------------------------------ reportMonitoringMetrics
\* Collect line 117, the call at line 120, and lines 205-227 of
\* reportMonitoringMetrics: the prefix goroutines and the watcher are started.
CollectBegin ==
    /\ cpc = "idle"
    /\ begun' = now
    /\ ppc' = [p \in Prefixes |-> IF p <= np THEN "list" ELSE "none"]
    /\ cpc' = "select"
    /\ UNCHANGED <<np, errorMetric, scrapeErr, topErr, topDone>>
    /\ UNCHANGED <<pageNo, hasNext, perr, errCh, done, nd, window>>
    /\ UNCHANGED <<taskVars, metricVars, histVars, now>>
    /\ UNCHANGED <<reduceVars, replayVars>>

\* faulty variant: the WaitGroup counts one goroutine, whatever the number of prefixes
AnyPrefixDone == np = 0 \/ \E p \in 1..np : ppc[p] = "done"

\* line 225: wg.Wait() returns, every prefix goroutine having run its
\* deferred wg.Done() (wg.Add(1) is called once per prefix, line 211)
AllPrefixesDone == \A p \in 1..np : ppc[p] = "done"

\* lines 224-227: wg.Wait() returns once every prefix goroutine has run its
\* deferred wg.Done(); then close(doneChannel)
TopWatcher ==
    /\ cpc # "idle"
    /\ ~topDone
    /\ AllPrefixesDone
    /\ topDone' = TRUE
    /\ UNCHANGED <<np, cpc, begun, errorMetric, scrapeErr, topErr>>
    /\ UNCHANGED <<prefixVars, taskVars, metricVars, histVars, now>>
    /\ UNCHANGED <<reduceVars, replayVars>>

\* lines 229-233, case err := <-errChannel: return err
RmmSelectErr ==
    /\ cpc = "select"
    /\ topErr # <<>>
    /\ scrapeErr' = topErr
    /\ topErr' = <<>>
    /\ cpc' = "bookkeeping"
    /\ UNCHANGED <<np, begun, errorMetric, topDone>>
    /\ UNCHANGED <<prefixVars, taskVars, metricVars, histVars, now>>
    /\ UNCHANGED <<reduceVars, replayVars>>

\* lines 229-235, case <-doneChannel: return nil
RmmSelectDone ==
    /\ cpc = "select"
    /\ topDone
    /\ scrapeErr' = <<>>
    /\ cpc' = "bookkeeping"
    /\ UNCHANGED <<np, begun, errorMetric, topErr, topDone>>
    /\ UNCHANGED <<prefixVars, taskVars, metricVars, histVars, now>>
    /\ UNCHANGED <<reduceVars, replayVars>>

\* ------------------------------------------------- prefix goroutines
\* The goroutine of lines 212-221 runs MetricDescriptors.List(...).Pages(ctx,
\* metricDescriptorsFunction): Pages calls Do() for a page, returns its error,
\* else calls the callback and returns its error, else goes on to the next
\* page while the page has a NextPageToken.

\* A request to the remote, by its place in the scrape: the descriptor page pg
\* of prefix p (d = 0, k = 0), or the time-series page k of the descriptor at
\* position d of that page.  An answer: an error, no page, or a page.
Request(p, pg, d, k) == <<p, pg, d, k>>
Answer(kind, n, more, series) == [kind |-> kind, n |-> n, more |-> more, series |-> series]

\* When two scrapes are followed, the remote answers a request of the second
\* as it answered the same request of the first.
Replays(req, ans) ==
    IF run = 0 \/ req \notin DOMAIN answers THEN TRUE ELSE answers[req] = ans

Answered(req, ans) == IF run = 0 THEN answers ELSE (req :> ans) @@ answers

\* the error of a failed remote call or reduction: who met it, and what
FetchError(p, d, kind) == [p |-> p, d |-> d, kind |-> kind]

\* lines 151-152: startTime and endTime from the two clock readings
WindowAt(t0, t1) == <<t0 - MetricsInterval, t1>>

\* Pages: Do() fails; lines 218-219 then send the error
PrefixListFail(p) ==
    /\ ppc[p] = "list"
    /\ Replays(Request(p, pageNo[p] + 1, 0, 0), Answer("fail", 0, FALSE, <<>>))
    /\ answers' = Answered(Request(p, pageNo[p] + 1, 0, 0), Answer("fail", 0, FALSE, <<>>))
    /\ fetchCalls' = fetchCalls + 1
    /\ perr' = [perr EXCEPT ![p] = <<FetchError(p, 0, "list")>>]
    /\ ppc' = [ppc EXCEPT ![p] = "senderr"]
    /\ UNCHANGED <<pageNo, hasNext, errCh, done, nd, window>>
    /\ UNCHANGED <<collectVars, taskVars, metricVars, tsRequests, firstErr, promised, prior, horizon, now>>
    /\ UNCHANGED <<reduceVars, replayVars>>

\* Pages: Do() returns a page of n descriptors; the callback (lines 143-194)
\* counts the call, makes its channels, reads the clock twice, starts one
\* goroutine per descriptor and the watcher, and reaches its select
PrefixListPage(p) ==
    /\ ppc[p] = "list"
    /\ pageNo[p] < MaxDescPages
    /\ \E n \in 0..MaxDescriptors, more \in BOOLEAN, t0 \in 0..MaxClock, t1 \in 0..MaxClock :
        /\ more => pageNo[p] + 1 < MaxDescPages
        /\ Replays(Request(p, pageNo[p] + 1, 0, 0), Answer("page", n, more, <<>>))
        /\ answers' = Answered(Request(p, pageNo[p] + 1, 0, 0), Answer("page", n, more, <<>>))
        /\ promised + Offered(n, more) <= MaxCalls
        /\ promised' = promised + Offered(n, more)
        /\ TimeNow(now, t0) /\ TimeNow(t0, t1)
        /\ fetchCalls' = fetchCalls + 1
        /\ apiCalls' = apiCalls + 1
        /\ pageNo' = [pageNo EXCEPT ![p] = @ + 1]
        /\ hasNext' = [hasNext EXCEPT ![p] = more]
        /\ errCh' = [errCh EXCEPT ![p] = <<>>]
        /\ done' = [done EXCEPT ![p] = FALSE]
        /\ firstErr' = [firstErr EXCEPT ![p] = <<>>]
        /\ nd' = [nd EXCEPT ![p] = n]
        /\ now' = t1
        /\ window' = [window EXCEPT ![p] = WindowAt(t0, t1)]
        /\ tpc' = [tpc EXCEPT ![p] = [d \in Descs |-> IF d <= n THEN "fetch" ELSE "none"]]
        /\ tgot' = [tgot EXCEPT ![p] = [d \in Descs |-> <<>>]]
        /\ terr' = [terr EXCEPT ![p] = [d \in Descs |-> <<>>]]
    /\ ppc' = [ppc EXCEPT ![p] = "select"]
    /\ UNCHANGED <<perr, collectVars, tsRequests, prior, horizon>>
    /\ UNCHANGED <<scrapesTotal, scrapeErrorsTotal, lastScrapeError, sink, emitted>>
    /\ UNCHANGED <<reduceVars, replayVars>>

\* faulty variant: the page's WaitGroup counts one goroutine, however many
\* descriptors the page lists
PageAnyDone(p) == nd[p] = 0 \/ \E d \in 1..nd[p] : tpc[p][d] \in {"done", "errdone"}

\* lines 191-194: wg.Wait() returns once every descriptor goroutine of the
\* page has run its deferred wg.Done(); then close(doneChannel)
PageAllDone(p) == \A d \in 1..nd[p] : tpc[p][d] \in {"done", "errdone"}

PageWatcher(p) ==
    /\ pageNo[p] > 0
    /\ ~done[p]
    /\ PageAllDone(p)
    /\ done' = [done EXCEPT ![p] = TRUE]
    /\ UNCHANGED <<ppc, pageNo, hasNext, perr, errCh, nd, window>>
    /\ UNCHANGED <<collectVars, taskVars, metricVars, histVars, now>>
    /\ UNCHANGED <<reduceVars, replayVars>>

\* lines 196-200, case err := <-errChannel: the callback returns err, so
\* Pages returns it
PrefixSelectErr(p) ==
    /\ ppc[p] = "select"
    /\ errCh[p] # <<>>
    /\ perr' = [perr EXCEPT ![p] = errCh[p]]
    /\ errCh' = [errCh EXCEPT ![p] = <<>>]
    /\ ppc' = [ppc EXCEPT ![p] = "senderr"]
    /\ UNCHANGED <<pageNo, hasNext, done, nd, window>>
    /\ UNCHANGED <<collectVars, taskVars, metricVars, histVars, now>>
    /\ UNCHANGED <<reduceVars, replayVars>>

\* lines 196-202, case <-doneChannel: the callback returns nil; Pages fetches
\* the next page if there is a token, else returns nil and the goroutine ends
PrefixSelectDone(p) ==
    /\ ppc[p] = "select"
    /\ done[p]
    /\ ppc' = [ppc EXCEPT ![p] = IF hasNext[p] THEN "list" ELSE "done"]
    /\ UNCHANGED <<pageNo, hasNext, perr, errCh, done, nd, window>>
    /\ UNCHANGED <<collectVars, taskVars, metricVars, histVars, now>>
    /\ UNCHANGED <<reduceVars, replayVars>>

\* line 219: errChannel <- err, a send on a channel of capacity 1
PrefixSendErr(p) ==
    /\ ppc[p] = "senderr"
    /\ topErr = <<>>
    /\ topErr' = perr[p]
    /\ ppc' = [ppc EXCEPT ![p] = "done"]
    /\ UNCHANGED <<np, cpc, begun, errorMetric, scrapeErr, topDone>>
    /\ UNCHANGED <<pageNo, hasNext, perr, errCh, done, nd, window>>
    /\ UNCHANGED <<taskVars, metricVars, histVars, now>>
    /\ UNCHANGED <<reduceVars, replayVars>>

\* --------------------------------------------- descriptor goroutines
\* faulty variant: the interval is computed when the request is built
RequestIntervalAtCall(p) == WindowAt(now, now)

\* lines 161-162: the interval a time-series request of prefix p's current
\* page carries (startTime and endTime are captured by the goroutine)
RequestInterval(p) == window[p]

\* lines 165-166: count the call and issue timeSeriesListCall.Do()
TSFetchIssue(p, d) ==
    /\ tpc[p][d] = "fetch"
    /\ apiCalls' = apiCalls + 1
    /\ fetchCalls' = fetchCalls + 1
    /\ tsRequests' = tsRequests \cup {<<p, pageNo[p], RequestInterval(p)>>}
    /\ tpc' = [tpc EXCEPT ![p][d] = "wait"]
    /\ UNCHANGED <<tgot, terr, firstErr, promised, prior, horizon, answers>>
    /\ UNCHANGED <<scrapesTotal, scrapeErrorsTotal, lastScrapeError, sink, emitted>>
    /\ UNCHANGED <<collectVars, prefixVars, now>>
    /\ UNCHANGED <<reduceVars, replayVars>>

\* lines 166-167: Do() returns an error
TSFetchFail(p, d) ==
    /\ tpc[p][d] = "wait"
    /\ Replays(Request(p, pageNo[p], d, Len(tgot[p][d]) + 1), Answer("fail", 0, FALSE, <<>>))
    /\ answers' = Answered(Request(p, pageNo[p], d, Len(tgot[p][d]) + 1),
                           Answer("fail", 0, FALSE, <<>>))
    /\ terr' = [terr EXCEPT ![p][d] = <<FetchError(p, d, "fetch")>>]
    /\ tpc' = [tpc EXCEPT ![p][d] = "senderr"]
    /\ UNCHANGED tgot
    /\ UNCHANGED <<fetchCalls, tsRequests, firstErr, promised, prior, horizon>>
    /\ UNCHANGED <<collectVars, prefixVars, metricVars, now>>
    /\ UNCHANGED <<reduceVars, replayVars>>

\* lines 171-173: Do() returns no page; break, and the deferred wg.Done()
TSFetchNil(p, d) ==
    /\ tpc[p][d] = "wait"
    /\ Replays(Request(p, pageNo[p], d, Len(tgot[p][d]) + 1), Answer("nil", 0, FALSE, <<>>))
    /\ answers' = Answered(Request(p, pageNo[p], d, Len(tgot[p][d]) + 1),
                           Answer("nil", 0, FALSE, <<>>))
    /\ tgot' = [tgot EXCEPT ![p][d] = Append(@, NilPage)]
    /\ tpc' = [tpc EXCEPT ![p][d] = "done"]
    /\ UNCHANGED terr
    /\ UNCHANGED <<fetchCalls, tsRequests, firstErr, promised, prior, horizon>>
    /\ UNCHANGED <<collectVars, prefixVars, metricVars, now>>
    /\ UNCHANGED <<reduceVars, replayVars>>

\* lines 174-178: the error channel after the select with a default case:
\* an error that is in the channel is received
SelectErrChannel(ch) == <<>>

\* faulty variant: the break of line 176 leaves the loop
AfterSelectBreaksLoop(ch) == IF ch # <<>> THEN "done" ELSE "report"

\* lines 174-178: where the goroutine goes on after that select; the break
\* leaves the select, not the loop
AfterSelect(ch) == "report"

\* lines 166-178: Do() returns a page; then the select on errChannel
TSFetchPage(p, d) ==
    /\ tpc[p][d] = "wait"
    /\ Len(tgot[p][d]) < MaxTSPages
    /\ \E series \in TSPageChoices, more \in BOOLEAN :
        /\ more => Len(tgot[p][d]) + 1 < MaxTSPages
        /\ Replays(Request(p, pageNo[p], d, Len(tgot[p][d]) + 1),
                   Answer("page", 0, more, series))
        /\ answers' = Answered(Request(p, pageNo[p], d, Len(tgot[p][d]) + 1),
                               Answer("page", 0, more, series))
        /\ promised + Offered(0, more) <= MaxCalls
        /\ promised' = promised + Offered(0, more)
        /\ tgot' = [tgot EXCEPT ![p][d] = Append(@, TSPage(series, more))]
    /\ errCh' = [errCh EXCEPT ![p] = SelectErrChannel(errCh[p])]
    /\ tpc' = [tpc EXCEPT ![p][d] = AfterSelect(errCh[p])]
    /\ UNCHANGED <<ppc, pageNo, hasNext, perr, done, nd, window>>
    /\ UNCHANGED <<terr, collectVars, metricVars, fetchCalls, tsRequests, firstErr, prior, horizon, now>>
    /\ UNCHANGED <<reduceVars, replayVars>>

\* what the sink gets from page k of descriptor goroutine (p, d) of
\* descriptor page pg
Delivered(p, pg, d, k, sent) ==
    {[task |-> <<p, pg, d>>, page |-> k, idx |-> i, metric |-> sent[i]] :
        i \in 1..Len(sent)}

\* faulty variant: the loop goes on whether or not the page has a token
AfterReportIgnoringToken(err, page) == IF err THEN "senderr" ELSE "fetch"

\* lines 179-186: where the goroutine goes on after reportTimeSeriesMetrics:
\* to the send of its error, to the next Do(), or out of the loop
AfterReport(err, page) ==
    IF err THEN "senderr" ELSE IF page.next THEN "fetch" ELSE "done"

\* lines 179-186: reportTimeSeriesMetrics on the page; its error is sent,
\* else the loop goes on while the page has a NextPageToken
TSReport(p, d) ==
    /\ tpc[p][d] = "report"
    /\ LET page == tgot[p][d][Len(tgot[p][d])]
           r == reportTimeSeriesMetrics(page.series, DescriptorOf(d))
       IN  /\ ~r.panic
           /\ sink' = sink \cup Delivered(p, pageNo[p], d, Len(tgot[p][d]), r.sent)
           /\ terr' = [terr EXCEPT ![p][d] =
                          IF r.err THEN <<FetchError(p, d, "parse")>> ELSE @]
           /\ tpc' = [tpc EXCEPT ![p][d] = AfterReport(r.err, page)]
    /\ UNCHANGED <<tgot, histVars, now>>
    /\ UNCHANGED <<apiCalls, scrapesTotal, scrapeErrorsTotal, lastScrapeError, emitted>>
    /\ UNCHANGED <<collectVars, prefixVars>>
    /\ UNCHANGED <<reduceVars, replayVars>>

\* lines 168 and 180: errChannel <- err, a send on a channel of capacity 1,
\* then break and the deferred wg.Done()
TSSendErr(p, d) ==
    /\ tpc[p][d] = "senderr"
    /\ errCh[p] = <<>>
    /\ errCh' = [errCh EXCEPT ![p] = terr[p][d]]
    /\ firstErr' = [firstErr EXCEPT ![p] = IF @ = <<>> THEN terr[p][d] ELSE @]
    /\ tpc' = [tpc EXCEPT ![p][d] = "errdone"]
    /\ UNCHANGED <<ppc, pageNo, hasNext, perr, done, nd, window>>
    /\ UNCHANGED <<tgot, terr, fetchCalls, tsRequests, promised, prior, horizon, answers>>
    /\ UNCHANGED <<collectVars, metricVars, now>>
    /\ UNCHANGED <<reduceVars, replayVars>>

\* ---------------------------------------------------------- Collect
\* faulty variant: errorMetric is never set
ErrorMetricNeverSet(err) == 0

\* lines 119-121: errorMetric after the pipeline returned err
ErrorMetricOf(err) == IF err # <<>> THEN 1 ELSE 0

\* line 122 under the condition of line 120: the scrape-error counter
ScrapeErrorsAfter(n, err) == IF err # <<>> THEN n + 1 ELSE n

\* faulty variant: the scrape is counted on success only
ScrapesAfterNoInc(n) == IF scrapeErr # <<>> THEN n ELSE n + 1

\* line 129: c.scrapesTotalMetric.Inc()
ScrapesAfter(n) == n + 1

\* X.Collect(ch): one bookkeeping metric is sent on ch
Emit(em, name, value) == Append(em, <<name, value>>)

\* lines 120-140, after reportMonitoringMetrics returned: the error is
\* counted, and the six bookkeeping metrics are set and sent on ch in turn;
\* t1 and t2 are the clock readings of lines 135 and 138
CollectFinish ==
    /\ cpc = "bookkeeping"
    /\ errorMetric' = ErrorMetricOf(scrapeErr)
    /\ scrapeErrorsTotal' = ScrapeErrorsAfter(scrapeErrorsTotal, scrapeErr)
    /\ scrapesTotal' = ScrapesAfter(scrapesTotal)
    /\ lastScrapeError' = errorMetric'
    /\ \E t1 \in 0..MaxClock, t2 \in 0..MaxClock :
        /\ TimeNow(now, t1) /\ TimeNow(t1, t2)
        /\ now' = t2
        /\ emitted' =
            Emit(Emit(Emit(Emit(Emit(Emit(emitted,
                "scrape_errors_total", scrapeErrorsTotal'),
                "api_calls_total", apiCalls),
                "scrapes_total", scrapesTotal'),
                "last_scrape_error", lastScrapeError'),
                "last_scrape_timestamp", t1),
                "last_scrape_duration_seconds", t2 - begun)
    /\ cpc' = "returned"
    /\ UNCHANGED <<np, begun, scrapeErr, topErr, topDone>>
    /\ UNCHANGED <<apiCalls, sink>>
    /\ UNCHANGED <<prefixVars, taskVars, histVars>>
    /\ UNCHANGED <<reduceVars, replayVars>>

\* ------------------------------------------------------ specification
PrefixStep(p) ==
    \/ PrefixListFail(p)
    \/ PrefixListPage(p)
    \/ PageWatcher(p)
    \/ PrefixSelectErr(p)
    \/ PrefixSelectDone(p)
    \/ PrefixSendErr(p)

TaskStep(p, d) ==
    \/ TSFetchIssue(p, d)
    \/ TSFetchFail(p, d)
    \/ TSFetchNil(p, d)
    \/ TSFetchPage(p, d)
    \/ TSReport(p, d)
    \/ TSSendErr(p, d)

CollectStep ==
    \/ CollectBegin
    \/ TopWatcher
    \/ RmmSelectErr
    \/ RmmSelectDone
    \/ CollectFinish

Next ==
    \/ CollectStep
    \/ \E p \in Prefixes : PrefixStep(p)
    \/ \E p \in Prefixes : \E d \in Descs : TaskStep(p, d)

Spec == Init /\ [][Next]_vars

\* A collector just constructed (NewMonitoringCollector), scraped so fast
\* that every clock reading is the same.  The control flow of the pipeline
\* reads neither the counters nor the clock.
InitFresh ==
    /\ Init
    /\ prior = [scrapes |-> 0, errors |-> 0, last |-> 0]
    /\ horizon = 0

\* Every goroutine that can take a step eventually takes one: the Go
\* scheduler starves no runnable goroutine, and every remote call returns.
FairSpec == InitFresh /\ [][Next]_vars /\ WF_vars(Next)

\* ------------------------- reportTimeSeriesMetrics, series by series
\* One call of reportTimeSeriesMetrics on a page the remote returned.  The
\* page is read in order, so its series and their points are drawn when the
\* loops reach them.

\* the label maps a series may carry: Metric.Labels and Resource.Labels, as
\* the key-value pairs in the order the range loops visit them
LabelChoices ==
    {[m |-> <<>>, r |-> <<>>],
     [m |-> << <<"instance_name", "vm1">> >>, r |-> << <<"zone", "us-east1-b">> >>]}

\* a series as the loop meets it, before its points and labels are read
SeriesHeader(kind, vt) ==
    [metricType |-> "compute.googleapis.com/instance/cpu/usage_time",
     metricKind |-> kind, valueType |-> vt, resourceType |-> "gce_instance",
     metricLabels |-> <<>>, resourceLabels |-> <<>>,
     points |-> <<>>]

\* the series with its label maps, as lines 284-291 read them
WithLabels(timeSeries, labels) ==
    [timeSeries EXCEPT !.metricLabels = labels.m, !.resourceLabels = labels.r]

ReduceInit ==
    /\ PipelineInit
    /\ run = 0
    /\ np = 0
    /\ prior = [scrapes |-> 0, errors |-> 0, last |-> 0]
    /\ horizon = 0
    /\ rDesc \in Descriptors
    /\ rLen \in 0..MaxSeries
    /\ rIdx = 0
    /\ rSeries = <<>>
    /\ rNewestEnd = UnixEpoch
    /\ rNewest = <<>>
    /\ rPc = "next"
    /\ rRet = ""
    /\ rSentFor = <<>>
    /\ rPick = 0
    /\ rLast = <<>>

\* lines 243-244: the loop takes the next series of the page
RNextSeries ==
    /\ rPc = "next"
    /\ rIdx < rLen
    /\ \E kind \in MetricKinds, vt \in ValueTypes :
        rSeries' = <<SeriesHeader(kind, vt)>>
    /\ rIdx' = rIdx + 1
    /\ rNewestEnd' = UnixEpoch
    /\ rPick' = 0
    /\ rLast' = <<>>
    /\ rPc' = "scan"
    /\ UNCHANGED <<rDesc, rLen, rNewest, rRet, rSentFor>>
    /\ UNCHANGED <<pipelineVars, replayVars>>

\* lines 245-253: the points loop takes the next point of the series, which
\* parses
RScanPoint ==
    /\ rPc = "scan"
    /\ Len(rSeries[1].points) < MaxPoints
    /\ \E point \in PointsOf(rSeries[1].valueType) :
        LET st == ScanPoint([err |-> FALSE, newestEndTime |-> rNewestEnd,
                             newestTSPoint |-> rNewest], point)
        IN  /\ ~st.err
            /\ rSeries' = <<[rSeries[1] EXCEPT !.points = Append(@, point)]>>
            /\ rNewestEnd' = st.newestEndTime
            /\ rNewest' = st.newestTSPoint
            /\ rPick' = IF st.newestEndTime # rNewestEnd \/ st.newestTSPoint # rNewest
                        THEN Len(rSeries[1].points) + 1
                        ELSE rPick
    /\ UNCHANGED <<rDesc, rLen, rIdx, rPc, rRet, rSentFor, rLast>>
    /\ UNCHANGED <<pipelineVars, replayVars>>

\* lines 245-249: the next point does not parse; return the error
RScanBadPoint ==
    /\ rPc = "scan"
    /\ Len(rSeries[1].points) < MaxPoints
    /\ \E point \in PointsOf(rSeries[1].valueType) :
        LET st == ScanPoint([err |-> FALSE, newestEndTime |-> rNewestEnd,
                             newestTSPoint |-> rNewest], point)
        IN  /\ st.err
            /\ rSeries' = <<[rSeries[1] EXCEPT !.points = Append(@, point)]>>
    /\ rLast' = <<[idx |-> rIdx, series |-> rSeries'[1], out |-> "error", sample |-> <<>>,
                   pick |-> rPick]>>
    /\ rRet' = "err"
    /\ rPc' = "returned"
    /\ UNCHANGED <<rDesc, rLen, rIdx, rNewestEnd, rNewest, rSentFor, rPick>>
    /\ UNCHANGED <<pipelineVars, replayVars>>

\* lines 256-304: the series has no further point; the two switches, and the
\* metric is sent on ch
REmitSeries ==
    /\ rPc = "scan"
    /\ \E labels \in LabelChoices :
       LET timeSeries == WithLabels(rSeries[1], labels)
           e == EmitSeries(timeSeries, rDesc, rNewest)
       IN
        /\ rLast' = <<[idx |-> rIdx, series |-> timeSeries, out |-> e.out,
                       sample |-> e.sample, pick |-> rPick]>>
        /\ rSentFor' = IF e.out = "sample" THEN Append(rSentFor, rIdx) ELSE rSentFor
        /\ rPc' = IF e.out = "panic" THEN "returned" ELSE "next"
        /\ rRet' = IF e.out = "panic" THEN "panic" ELSE rRet
    /\ UNCHANGED <<rDesc, rLen, rIdx, rSeries, rNewestEnd, rNewest, rPick>>
    /\ UNCHANGED <<pipelineVars, replayVars>>

\* line 306: the page has no further series; return nil
RReturnNil ==
    /\ rPc = "next"
    /\ rIdx = rLen
    /\ rRet' = "nil"
    /\ rPc' = "returned"
    /\ UNCHANGED <<rDesc, rLen, rIdx, rSeries, rNewestEnd, rNewest, rSentFor, rPick, rLast>>
    /\ UNCHANGED <<pipelineVars, replayVars>>

ReduceNext ==
    \/ RNextSeries
    \/ RScanPoint
    \/ RScanBadPoint
    \/ REmitSeries
    \/ RReturnNil

SpecReduce == ReduceInit /\ [][ReduceNext]_vars

\* ------------------------------------------------------------ claims
RmmReturned == cpc \in {"bookkeeping", "returned"}

\* the callback of prefix p's current descriptor page has returned
PageReturned(p) ==
    \/ ppc[p] \in {"senderr", "done"}
    \/ ppc[p] = "list" /\ pageNo[p] > 0

\* descriptor goroutine (p, d) met a fetch error
FetchFailed(p, d) == terr[p][d] # <<>> /\ terr[p][d][1].kind = "fetch"

\* descriptor goroutine (p, d) failed its fetch and every sibling of its
\* page, and there is one, finished without an error
OnlyFailure(p, d) ==
    /\ d <= nd[p]
    /\ nd[p] >= 2
    /\ FetchFailed(p, d)
    /\ tpc[p][d] = "errdone"
    /\ \A e \in 1..nd[p] : e # d => tpc[p][e] = "done"

\* C1: if one descriptor's time-series fetch fails while the fetches of its
\* siblings succeed, the callback of that page returns that failure and
\* reportMonitoringMetrics returns a non-nil error, in every interleaving.
C1_FailureReported ==
    \A p \in Prefixes : \A d \in Descs :
        OnlyFailure(p, d) =>
            /\ PageReturned(p) => perr[p] = terr[p][d]
            /\ RmmReturned => scrapeErr # <<>>

\* C2: writing an error to an error channel never blocks the writer: no
\* descriptor goroutine and no prefix goroutine ever stands at its send with
\* the slot of the channel taken.
C2_NeverBlocks ==
    /\ \A p \in Prefixes : \A d \in Descs : tpc[p][d] = "senderr" => errCh[p] = <<>>
    /\ \A p \in Prefixes : ppc[p] = "senderr" => topErr = <<>>

\* C2, the case that never ends: a descriptor goroutine stands at its send,
\* the slot is taken, the callback has returned and no sibling is left to
\* empty the slot, so the goroutine is never released.
C2_LeakedSender ==
    \E p \in Prefixes : \E d \in Descs :
        /\ tpc[p][d] = "senderr"
        /\ errCh[p] # <<>>
        /\ ppc[p] = "done"
        /\ cpc = "returned"
        /\ \A e \in 1..nd[p] : e # d => tpc[p][e] \in {"done", "errdone", "senderr"}

\* C3: within one descriptor page, an error leaves the error channel only by
\* the callback's select receiving it, and the error the callback receives
\* (and returns) is the first one written to the channel.
C3_FirstWriterWins ==
    [][\A p \in Prefixes :
          (errCh[p] # <<>> /\ errCh'[p] = <<>> /\ pageNo'[p] = pageNo[p]) =>
              /\ ppc[p] = "select" /\ ppc'[p] = "senderr"
              /\ perr'[p] = firstErr[p]]_vars

\* what reportTimeSeriesMetrics sends for page k of descriptor goroutine (p, d)
SamplesOf(p, d, k) ==
    Delivered(p, pageNo[p], d, k,
              reportTimeSeriesMetrics(tgot[p][d][k].series, DescriptorOf(d)).sent)

\* every page (p, d) has received, but for the one it is about to report,
\* has all its samples in the sink
PagesDelivered(p, d) ==
    \A k \in 1..Len(tgot[p][d]) :
        (k < Len(tgot[p][d]) \/ tpc[p][d] # "report") => SamplesOf(p, d, k) \subseteq sink

\* (p, d) has left its loop without an error only after a page without a
\* NextPageToken (or a nil page)
LeftAtEnd(p, d) ==
    tpc[p][d] = "done" =>
        /\ tgot[p][d] # <<>>
        /\ ~tgot[p][d][Len(tgot[p][d])].next

\* no descriptor goroutine has a fetch or a report ahead of it
Settled ==
    \A p \in Prefixes : \A d \in Descs :
        tpc[p][d] \in {"none", "done", "errdone", "senderr"}

\* C4: a dispatched descriptor goroutine is never aborted because a sibling
\* reported an error: whatever is in the error channel, it leaves its loop
\* only after its own last page, every page it received has its samples
\* delivered to the sink, and it eventually gets there.
C4_SiblingsNotAborted ==
    /\ [](\A p \in Prefixes : \A d \in Descs : PagesDelivered(p, d) /\ LeftAtEnd(p, d))
    /\ <>[]Settled

\* C4 witness: the callback has returned a sibling's error, and a goroutine
\* of the same page has since received two pages and delivered both.
C4_Witness ==
    \E p \in Prefixes : \E d \in Descs :
        /\ ppc[p] \in {"senderr", "done"}
        /\ perr[p] # <<>> /\ perr[p][1].d # d /\ perr[p][1].d # 0
        /\ tpc[p][d] = "done"
        /\ Len(tgot[p][d]) = 2
        /\ SamplesOf(p, d, 1) \cup SamplesOf(p, d, 2) \subseteq sink
        /\ SamplesOf(p, d, 2) # {}

\* the value Collect sent for the bookkeeping metric name
EmittedValue(name) ==
    LET i == CHOOSE i \in 1..Len(emitted) : emitted[i][1] = name IN emitted[i][2]

\* C5: when Collect has returned, whether the pipeline returned an error or
\* nil, the scrape counter is one more than when it was called and the six
\* bookkeeping metrics have been sent, each once; before that the scrape
\* counter has not moved.
C5_Bookkeeping ==
    /\ cpc = "returned" =>
        /\ scrapesTotal = prior.scrapes + 1
        /\ [i \in 1..Len(emitted) |-> emitted[i][1]] = Bookkeeping
        /\ EmittedValue("scrapes_total") = scrapesTotal
        /\ EmittedValue("api_calls_total") <= apiCalls
    /\ cpc # "returned" => scrapesTotal = prior.scrapes /\ emitted = <<>>

\* C5 witness: Collect has returned after a failed pipeline run, on a
\* collector that had scraped before.
C5_Witness ==
    /\ cpc = "returned"
    /\ scrapeErr # <<>>
    /\ prior.scrapes = 1
    /\ Len(emitted) = 6

\* C6: the last-scrape-error value Collect sets and sends is 1 if the
\* pipeline run of this invocation returned an error and 0 otherwise, and the
\* scrape-error counter has grown by one in the first case and not at all in
\* the second.
C6_ErrorFlag ==
    /\ cpc = "returned" =>
        /\ lastScrapeError = (IF scrapeErr # <<>> THEN 1 ELSE 0)
        /\ EmittedValue("last_scrape_error") = lastScrapeError
        /\ scrapeErrorsTotal = prior.errors + (IF scrapeErr # <<>> THEN 1 ELSE 0)
        /\ EmittedValue("scrape_errors_total") = scrapeErrorsTotal
    /\ cpc # "returned" =>
        /\ scrapeErrorsTotal = prior.errors
        /\ lastScrapeError = prior.last

\* C6 witness: a failed pipeline run after a scrape that had succeeded.
C6_Witness ==
    /\ cpc = "returned"
    /\ scrapeErr # <<>>
    /\ prior.last = 0 /\ prior.scrapes = 1
    /\ lastScrapeError = 1

\* C7: reportMonitoringMetrics eventually returns, whatever the number of
\* prefixes and whichever fetches fail; what it returns is an error that a
\* prefix goroutine sent, or nil once every prefix goroutine has finished.
C7_Returns ==
    /\ <>RmmReturned
    /\ [](RmmReturned =>
            IF scrapeErr # <<>>
            THEN \E p \in 1..np : ppc[p] = "done" /\ perr[p] = scrapeErr
            ELSE \A p \in 1..np : ppc[p] = "done")

\* C7 witness: two prefixes, both failed, and the pipeline has returned.
C7_Witness ==
    /\ RmmReturned
    /\ np = 2
    /\ perr[1] # <<>> /\ perr[2] # <<>>
    /\ scrapeErr # <<>>

\* no goroutine will issue another remote call
Quiet ==
    /\ cpc # "idle"
    /\ \A p \in Prefixes : ppc[p] \in {"none", "senderr", "done"}
    /\ Settled

\* C8: over one scrape the API-call counter grows by exactly the number of
\* descriptor-page and time-series-page fetch calls issued, whether a call
\* succeeded or failed.
C8_EveryFetchCounted == Quiet => apiCalls = fetchCalls

C10_EmptySeriesNoSample ==
    (rLast # <<>> /\ rLast[1].series.points = <<>>) => rLast[1].out = "skip"

\* ---- claims about the reduction of one series
\* the series last reduced has a kind and a value type the switches map
Supported(timeSeries) ==
    /\ timeSeries.metricKind \in {"GAUGE", "DELTA", "CUMULATIVE"}
    /\ timeSeries.valueType \in {"BOOL", "INT64", "DOUBLE"}

\* the end time of point i of points, in seconds since the epoch
EndOf(points, i) == ParseTime(points[i].endTime)[1]

\* point i has the maximum end time over points
IsNewest(points, i) == \A j \in 1..Len(points) : EndOf(points, j) <= EndOf(points, i)

\* the first and the last, in scan order, of the points with the maximum end time
FirstNewest(points) == CHOOSE i \in 1..Len(points) :
    IsNewest(points, i) /\ \A j \in 1..(i - 1) : ~IsNewest(points, j)

LastNewest(points) == CHOOSE i \in 1..Len(points) :
    IsNewest(points, i) /\ \A j \in (i + 1)..Len(points) : ~IsNewest(points, j)

\* the sample value the specification gives for a point's value v
SampleValueOf(v) ==
    IF v.boolValue # <<>> THEN (IF v.boolValue[1] THEN 1000 ELSE 0)
    ELSE IF v.int64Value # <<>> THEN 1000 * v.int64Value[1]
    ELSE v.doubleValue[1]

\* the series last reduced had points, all of which parsed
ReducedWithPoints ==
    /\ rLast # <<>>
    /\ rLast[1].out # "error"
    /\ rLast[1].series.points # <<>>

\* C11: a series with at least one point and a supported kind and value type
\* yields a sample whose value is that of a point of the series with the
\* maximum end time, whatever the order of the points and whatever series
\* came before it in the page.
C11_NewestPointValue ==
    (ReducedWithPoints /\ Supported(rLast[1].series)) =>
        /\ rLast[1].out = "sample"
        /\ \E i \in 1..Len(rLast[1].series.points) :
            /\ IsNewest(rLast[1].series.points, i)
            /\ rLast[1].sample[1].value = SampleValueOf(rLast[1].series.points[i].value)

\* C11 where the code agrees: the same, for a series with a point whose end
\* time is after the Unix epoch.
C11_NewestAfterEpoch ==
    (/\ ReducedWithPoints
     /\ Supported(rLast[1].series)
     /\ \E i \in 1..Len(rLast[1].series.points) :
            EndOf(rLast[1].series.points, i) > UnixEpoch) =>
        /\ rLast[1].out = "sample"
        /\ \E i \in 1..Len(rLast[1].series.points) :
            /\ IsNewest(rLast[1].series.points, i)
            /\ rLast[1].sample[1].value = SampleValueOf(rLast[1].series.points[i].value)

\* C12: when several points of a series share the maximum end time, the point
\* selected is the last of them in scan order.
C12_LastOfEqualsWins ==
    (ReducedWithPoints /\ rLast[1].pick > 0) =>
        rLast[1].pick = LastNewest(rLast[1].series.points)

\* C12 as amended: the point selected, when it is a point of the series, is
\* the first in scan order of the points that share the maximum end time.
C12_FirstOfEqualsWins ==
    (ReducedWithPoints /\ rLast[1].pick > 0) =>
        rLast[1].pick = FirstNewest(rLast[1].series.points)

\* C12 witness: three points, the last two sharing the maximum end time with
\* different values, and the sample carries the value of the second.
C12_Witness ==
    /\ ReducedWithPoints
    /\ rLast[1].out = "sample"
    /\ Len(rLast[1].series.points) = 3
    /\ EndOf(rLast[1].series.points, 1) < EndOf(rLast[1].series.points, 2)
    /\ EndOf(rLast[1].series.points, 2) = EndOf(rLast[1].series.points, 3)
    /\ rLast[1].series.points[2].value # rLast[1].series.points[3].value
    /\ rLast[1].pick = 2
    /\ rLast[1].sample[1].value = SampleValueOf(rLast[1].series.points[2].value)

\* the sample kind the specification gives for a metric kind
SampleKindOf(metricKind) == IF metricKind = "GAUGE" THEN "gauge" ELSE "counter"

\* what C13 says of the series last reduced: a series the switches do not map
\* gives nothing and the loop goes on to the next series; any other gives a
\* sample of the kind and with the value its kind and value type determine
MappedAsSpecified ==
    IF Supported(rLast[1].series)
    THEN /\ rLast[1].out = "sample"
         /\ rLast[1].sample[1].valueKind = SampleKindOf(rLast[1].series.metricKind)
         /\ rNewest # <<>>
         /\ rLast[1].sample[1].value = SampleValueOf(rNewest[1].value)
         /\ (rLast[1].series.valueType = "BOOL") = (rNewest[1].value.boolValue # <<>>)
         /\ (rLast[1].series.valueType = "INT64") = (rNewest[1].value.int64Value # <<>>)
         /\ rSentFor[Len(rSentFor)] = rIdx
    ELSE /\ rLast[1].out = "skip"
         /\ rRet = ""
         /\ rPc = "next"
         /\ (rSentFor = <<>> \/ rSentFor[Len(rSentFor)] < rIdx)

\* C13: for every series whose points all parse, the result of the reduction
\* is determined by the metric kind and the value type: GAUGE gives a gauge,
\* DELTA and CUMULATIVE a counter; BOOL gives 1.0 or 0.0, INT64 the integer as
\* a float, DOUBLE the value itself; any other kind or value type gives no
\* sample and no error, and the remaining series are still processed.
C13_KindAndValueMapping ==
    (rLast # <<>> /\ rLast[1].out # "error") =>
        /\ rLast[1].out # "panic"
        /\ rPc = "next" => MappedAsSpecified

\* C13 where the code agrees: every reduction that does not end in a fault
\* gives what the kind and the value type determine.
C13_MappingUnlessFault ==
    (rLast # <<>> /\ rLast[1].out # "error" /\ rPc = "next") => MappedAsSpecified

\* C13 where the code agrees: a series one of whose own points was selected
\* does not end in a fault and gives what its kind and value type determine.
C13_MappingWhereSelected ==
    (rLast # <<>> /\ rLast[1].out # "error" /\ rLast[1].pick > 0) =>
        /\ rLast[1].out # "panic"
        /\ rPc = "next" => MappedAsSpecified

\* C16: every sample sent to the sink has "unit" and "resource_type" as its
\* first two label keys, also when the series has no metric labels and no
\* resource labels; its label keys and label values have the same length, and
\* the first two values are the descriptor's unit and the series' resource type.
C16_FixedLabelPair ==
    (rLast # <<>> /\ rLast[1].out = "sample") =>
        LET m == rLast[1].sample[1] IN
        /\ Len(m.labelKeys) >= 2
        /\ m.labelKeys[1] = "unit"
        /\ m.labelKeys[2] = "resource_type"
        /\ Len(m.labelValues) = Len(m.labelKeys)
        /\ m.labelValues[1] = rDesc.unit
        /\ m.labelValues[2] = rLast[1].series.resourceType
        /\ Len(m.labelKeys) = 2 + Len(rLast[1].series.metricLabels)
                                 + Len(rLast[1].series.resourceLabels)

\* C16 witness: a sample of a series that has no metric labels and no
\* resource labels, for a descriptor whose unit is "By".
C16_Witness ==
    /\ rLast # <<>>
    /\ rLast[1].out = "sample"
    /\ rLast[1].series.metricLabels = <<>>
    /\ rLast[1].series.resourceLabels = <<>>
    /\ rLast[1].sample[1].labelKeys = <<"unit", "resource_type">>
    /\ rLast[1].sample[1].labelValues = <<"By", "gce_instance">>

\* ---- claims about a time-series page in the pipeline
\* page k of descriptor goroutine (p, d) has been through reportTimeSeriesMetrics
Reported(p, d, k) ==
    /\ k \in 1..Len(tgot[p][d])
    /\ ~tgot[p][d][k].nil
    /\ (k < Len(tgot[p][d]) \/ tpc[p][d] # "report")

\* the samples in the sink that come from page k of (p, d)
SinkOf(p, d, k) == {s \in sink : s.task = <<p, pageNo[p], d>> /\ s.page = k}

\* a point of the series has an end time that does not parse
Unparsed(timeSeries) ==
    \E i \in 1..Len(timeSeries.points) : ParseTime(timeSeries.points[i].endTime) = <<>>

\* the series of a page that come before its first series with such a point
BeforeFirstUnparsed(series) ==
    {i \in 1..Len(series) : \A j \in 1..i : ~Unparsed(series[j])}

\* C15: a point whose end time cannot be parsed is fatal to the reduction of
\* its own series only: the error is reported to the owning aggregator, and
\* every other series of the page, before or after the failing one, still
\* yields its sample.
C15_OnlyOwnSeriesLost ==
    \A p \in Prefixes : \A d \in Descs : \A k \in 1..MaxTSPages :
        Reported(p, d, k) =>
            LET series == tgot[p][d][k].series IN
            /\ Cardinality(SinkOf(p, d, k)) =
                   Cardinality({i \in 1..Len(series) : ~Unparsed(series[i])})
            /\ (\E i \in 1..Len(series) : Unparsed(series[i])) =>
                   /\ terr[p][d] = <<FetchError(p, d, "parse")>>
                   /\ tpc[p][d] \in {"senderr", "errdone"}

\* C15 as amended: such a point is fatal to the rest of its page and to its
\* descriptor goroutine: the series before the failing one have yielded their
\* samples, the failing one and those after it yield none, the goroutine
\* holds the error and sends it on the error channel, and fetches no further
\* page.
C15_RestOfPageLost ==
    \A p \in Prefixes : \A d \in Descs : \A k \in 1..MaxTSPages :
        Reported(p, d, k) =>
            LET series == tgot[p][d][k].series IN
            /\ Cardinality(SinkOf(p, d, k)) = Cardinality(BeforeFirstUnparsed(series))
            /\ (\E i \in 1..Len(series) : Unparsed(series[i])) =>
                   /\ k = Len(tgot[p][d])
                   /\ terr[p][d] = <<FetchError(p, d, "parse")>>
                   /\ tpc[p][d] \in {"senderr", "errdone"}
                   /\ tpc[p][d] = "errdone" => firstErr[p] # <<>>

\* C15 witness: a page with a reducible series before and after the failing
\* one has been reported, its error is in the channel, and the sink holds one
\* sample of that page.
C15_Witness ==
    \E p \in Prefixes : \E d \in Descs :
        /\ Reported(p, d, 1)
        /\ tgot[p][d][1].series = <<GoodSeries, BadSeries, GoodSeries>>
        /\ tgot[p][d][1].next
        /\ tpc[p][d] = "errdone"
        /\ errCh[p] = terr[p][d]
        /\ Cardinality(SinkOf(p, d, 1)) = 1

\* descriptor goroutine (p, d) is out of its pagination loop
OutOfLoop(p, d) == tpc[p][d] \in {"senderr", "errdone", "done"}

\* (p, d) is about to issue, or has in flight, a fetch: it holds no error,
\* every page it has received carried a NextPageToken, and the samples of
\* every one of them are in the sink
FetchInOrder(p, d) ==
    tpc[p][d] \in {"fetch", "wait"} =>
        /\ terr[p][d] = <<>>
        /\ \A k \in 1..Len(tgot[p][d]) :
            /\ ~tgot[p][d][k].nil
            /\ tgot[p][d][k].next
            /\ SamplesOf(p, d, k) \subseteq sink

\* (p, d) is out of its loop for a reason: a fetch error, a reduction error,
\* a nil page or a page without a NextPageToken
LeftForCause(p, d) ==
    /\ tpc[p][d] \in {"senderr", "errdone"} => terr[p][d] # <<>>
    /\ tpc[p][d] = "done" =>
        /\ terr[p][d] = <<>>
        /\ tgot[p][d] # <<>>
        /\ ~tgot[p][d][Len(tgot[p][d])].next

\* C17: within one descriptor goroutine the pagination is sequential and
\* streaming: a page is requested only when every page received before it
\* carried a NextPageToken and has its samples in the sink, a fetch is issued
\* only from the top of the loop, and once the goroutine has left the loop
\* (fetch error, reduction error, nil page or empty token) it issues no
\* further fetch.
C17_SequentialStreaming ==
    /\ [](\A p \in Prefixes : \A d \in Descs : FetchInOrder(p, d) /\ LeftForCause(p, d))
    /\ [][\A p \in Prefixes : \A d \in Descs :
            pageNo'[p] = pageNo[p] =>
                /\ OutOfLoop(p, d) => OutOfLoop(p, d)'
                /\ (tpc'[p][d] = "wait" /\ tpc[p][d] # "wait") =>
                       (tpc[p][d] = "fetch" /\ fetchCalls' = fetchCalls + 1)
                /\ Len(tgot'[p][d]) > Len(tgot[p][d]) =>
                       (tpc[p][d] = "wait" /\ Len(tgot'[p][d]) = Len(tgot[p][d]) + 1)]_vars

\* C17 witness: a goroutine has its second fetch in flight, the first page
\* having carried a token and its samples being in the sink.
C17_Witness ==
    \E p \in Prefixes : \E d \in Descs :
        /\ tpc[p][d] = "wait"
        /\ Len(tgot[p][d]) = 1
        /\ tgot[p][d][1].next
        /\ SamplesOf(p, d, 1) # {}
        /\ SamplesOf(p, d, 1) \subseteq sink

\* every goroutine the scrape started has ended: Collect has returned, the
\* prefix goroutines and the descriptor goroutines have run to their end, and
\* the watchers have closed their channels
AllTerminated ==
    /\ cpc = "returned"
    /\ topDone
    /\ \A p \in 1..np :
        /\ ppc[p] = "done"
        /\ pageNo[p] > 0 => done[p]
        /\ \A d \in 1..nd[p] : tpc[p][d] \in {"done", "errdone"}

\* C18: every goroutine a scrape starts eventually ends, however many of
\* them fail: the program never comes to rest with a goroutine still waiting.
C18_AllTasksTerminate == AllTerminated \/ ENABLED Next

\* C19: once Collect has sent its bookkeeping metrics and returned, no
\* goroutine of the scrape sends a further sample to the sink or increments
\* the API-call counter.
C19_NothingAfterReturn ==
    [][cpc = "returned" => (sink' = sink /\ apiCalls' = apiCalls)]_vars

\* C19 where the code agrees: after a scrape in which no prefix goroutine got
\* an error from Pages, nothing is sent or counted once Collect has returned.
C19_NothingAfterCleanReturn ==
    [][(cpc = "returned" /\ \A p \in Prefixes : perr[p] = <<>>) =>
           (sink' = sink /\ apiCalls' = apiCalls)]_vars

\* no descriptor goroutine of prefix p's current page is still running
NoneRunning(p) == \A d \in Descs : tpc[p][d] \in {"none", "done", "errdone"}

\* C20: within one prefix goroutine the next descriptor page is fetched only
\* after every descriptor goroutine of the page before it has finished, and
\* is not fetched at all once a callback has returned an error: when Pages is
\* about to fetch a further page, and when it fetches it, no goroutine of the
\* page before is running and no error has been returned; after an error the
\* prefix goroutine never lists again.
C20_OnePageAtATime ==
    /\ [](\A p \in Prefixes :
            /\ (ppc[p] = "list" /\ pageNo[p] > 0) =>
                   (NoneRunning(p) /\ done[p] /\ hasNext[p] /\ perr[p] = <<>>)
            /\ perr[p] # <<>> => ppc[p] \in {"senderr", "done"})
    /\ [][\A p \in Prefixes :
            /\ pageNo'[p] # pageNo[p] =>
                   /\ pageNo'[p] = pageNo[p] + 1
                   /\ NoneRunning(p)
                   /\ perr[p] = <<>>
                   /\ pageNo[p] > 0 => (done[p] /\ hasNext[p])
            /\ ppc[p] \in {"senderr", "done"} => ppc'[p] \in {"senderr", "done"}]_vars

\* C20 witness: the second descriptor page of a prefix has been fetched and
\* one of its goroutines is running, the first page having had goroutines too.
C20_Witness ==
    \E p \in Prefixes :
        /\ pageNo[p] = 2
        /\ \E d \in Descs : tpc[p][d] \in {"fetch", "wait", "report"}
        /\ \E s \in sink : s.task[1] = p /\ s.task[2] = 1

\* ---------------------------- two scrapes against the same remote
\* Collect is called, returns, and is called again on the same collector.
\* Every clock reading is the same, so both scrapes ask for the same window.
InitTwice ==
    /\ PipelineInit
    /\ ReduceIdle
    /\ run = 1
    /\ np >= 1
    /\ prior = [scrapes |-> 0, errors |-> 0, last |-> 0]
    /\ horizon = 0

\* Collect, lines 116-120, called a second time: reportMonitoringMetrics
\* makes new channels and a new WaitGroup and starts new goroutines (lines
\* 205-227); the counters of the collector go on from where they are.  What
\* the first scrape sent on ch is kept aside, what the remote answered is
\* kept, and goroutines the first scrape left blocked are followed no more.
Restart ==
    /\ run = 1
    /\ cpc = "returned"
    /\ Quiet
    /\ run' = 2
    /\ sink1' = sink
    /\ sink' = {}
    /\ emitted' = <<>>
    /\ cpc' = "idle"
    /\ begun' = 0
    /\ scrapeErr' = <<>>
    /\ topErr' = <<>>
    /\ topDone' = FALSE
    /\ ppc' = [p \in Prefixes |-> "none"]
    /\ pageNo' = [p \in Prefixes |-> 0]
    /\ hasNext' = [p \in Prefixes |-> FALSE]
    /\ perr' = [p \in Prefixes |-> <<>>]
    /\ errCh' = [p \in Prefixes |-> <<>>]
    /\ done' = [p \in Prefixes |-> FALSE]
    /\ nd' = [p \in Prefixes |-> 0]
    /\ window' = [p \in Prefixes |-> <<0, 0>>]
    /\ tpc' = [p \in Prefixes |-> [d \in Descs |-> "none"]]
    /\ tgot' = [p \in Prefixes |-> [d \in Descs |-> <<>>]]
    /\ terr' = [p \in Prefixes |-> [d \in Descs |-> <<>>]]
    /\ fetchCalls' = 0
    /\ tsRequests' = {}
    /\ firstErr' = [p \in Prefixes |-> <<>>]
    /\ promised' = np
    /\ prior' = [scrapes |-> scrapesTotal, errors |-> scrapeErrorsTotal,
                 last |-> lastScrapeError]
    /\ UNCHANGED <<np, errorMetric, now, horizon, answers>>
    /\ UNCHANGED <<apiCalls, scrapesTotal, scrapeErrorsTotal, lastScrapeError>>
    /\ UNCHANGED reduceVars

TwiceNext ==
    \/ Next
    \/ Restart

SpecTwice == InitTwice /\ [][TwiceNext]_vars

\* ---- claims about two scrapes
\* both scrapes are over: the second Collect has returned and none of its
\* goroutines has a fetch or a report ahead of it
BothOver == run = 2 /\ cpc = "returned" /\ Quiet

\* the remote answered a request with an error, or with a page one of whose
\* series has a point whose end time cannot be parsed
Troubled(ans) ==
    \/ ans.kind = "fail"
    \/ \E i \in 1..Len(ans.series) : Unparsed(ans.series[i])

\* C14: two scrapes to which the remote gives the same answer to every
\* request they both make (the same pages, the same failures), over the same
\* window, send the same set of samples on ch, whatever the interleaving of
\* the goroutines of either scrape.  A sample is told from another by the
\* descriptor and the series it was made from.
C14_SameSamplesTwice == BothOver => sink = sink1

\* C14 where the code agrees: when the remote answered no request with an
\* error or with an unparsable page, the two scrapes send the same samples.
C14_SameSamplesUnlessTroubled ==
    (BothOver /\ \A req \in DOMAIN answers : ~Troubled(answers[req])) =>
        sink = sink1

\* the two scrapes are over, the remote was untroubled, and samples were sent
C14_UntroubledTwice ==
    /\ BothOver
    /\ \A req \in DOMAIN answers : ~Troubled(answers[req])
    /\ sink1 # {}
    /\ sink = sink1

====
